---- MODULE Spec2Model ----
(***************************************************************************)
(* Model of the product-catalogue tools of rouall/Shengshui:               *)
(*   generate_products.py  decodes products.xlsx into product records      *)
(*   sync_products.py      patches products.json between two markers of    *)
(*                         products.html                                   *)
(* Text is modelled as a sequence of one-character strings, so that        *)
(* strip, lower, lstrip, startswith, int and find are computed character   *)
(* by character as Python computes them.                                   *)
(***************************************************************************)
EXTENDS Integers, Sequences, FiniteSets, TLC

VARIABLES pc, colA, colB, idxA, idxB, pkg, result, html, data, runs, exit

vars == <<pc, colA, colB, idxA, idxB, pkg, result, html, data, runs, exit>>

(***************************************************************************)
(* Bounds of the model                                                     *)
(***************************************************************************)
MaxLetters == 3

MaxSheets == 1

MaxRels == 2

MaxPath == 5

MaxRows == 2

MaxShared == 2

MaxDataRows == 2

MaxSegments == 3

MaxItems == 2

MaxRuns == 2

(***************************************************************************)
(* Characters and text                                                     *)
(***************************************************************************)
UpperLetters == <<"A","B","C","D","E","F","G","H","I","J","K","L","M",
                  "N","O","P","Q","R","S","T","U","V","W","X","Y","Z">>

LowerLetters == <<"a","b","c","d","e","f","g","h","i","j","k","l","m",
                  "n","o","p","q","r","s","t","u","v","w","x","y","z">>

DigitChars == <<"0","1","2","3","4","5","6","7","8","9">>

Range(s) == {s[i] : i \in 1..Len(s)}

IndexOf(s, c) == CHOOSE i \in 1..Len(s) : s[i] = c

IsUpper(c) == c \in Range(UpperLetters)

IsDigit(c) == c \in Range(DigitChars)

\* ord(c): the code point of a character of the model's alphabet
ord(c) ==
    IF c \in Range(UpperLetters) THEN 64 + IndexOf(UpperLetters, c)
    ELSE IF c \in Range(LowerLetters) THEN 96 + IndexOf(LowerLetters, c)
    ELSE IF c \in Range(DigitChars) THEN 47 + IndexOf(DigitChars, c)
    ELSE CASE c = "\t" -> 9
           [] c = "\n" -> 10
           [] c = " " -> 32
           [] c = "+" -> 43
           [] c = "-" -> 45
           [] c = "." -> 46
           [] c = "/" -> 47
           [] c = "_" -> 95

\* str.lower() on one character
LowerChar(c) ==
    IF c \in Range(UpperLetters) THEN LowerLetters[IndexOf(UpperLetters, c)] ELSE c

lower(s) == [i \in 1..Len(s) |-> LowerChar(s[i])]

RECURSIVE LStripWhile(_, _)
LStripWhile(s, drop) ==
    IF s # <<>> /\ Head(s) \in drop THEN LStripWhile(Tail(s), drop) ELSE s

RECURSIVE RStripWhile(_, _)
RStripWhile(s, drop) ==
    IF s # <<>> /\ s[Len(s)] \in drop
    THEN RStripWhile(SubSeq(s, 1, Len(s) - 1), drop)
    ELSE s

\* str.strip(): leading and trailing whitespace removed
strip(s) == RStripWhile(LStripWhile(s, {" ", "\t", "\n"}), {" ", "\t", "\n"})

\* str.lstrip(chars)
lstrip(s, chars) == LStripWhile(s, chars)

\* str.startswith(prefix)
startswith(s, prefix) ==
    /\ Len(s) >= Len(prefix)
    /\ SubSeq(s, 1, Len(prefix)) = prefix

(***************************************************************************)
(* Cell Reference Decoder: col_to_index                                    *)
(***************************************************************************)
RECURSIVE ColLoop(_, _)
ColLoop(col, n) ==
    IF col = <<>> THEN n
    ELSE ColLoop(Tail(col), n * 26 + (ord(Head(col)) - 64))

RECURSIVE ColLoopZeroBased(_, _)
ColLoopZeroBased(col, n) ==
    IF col = <<>> THEN n
    ELSE ColLoopZeroBased(Tail(col), n * 26 + (ord(Head(col)) - 65))

\* mutant: letters valued A=0..Z=25 (plain base 26), no final decrement
col_to_index_plain26(col) == ColLoopZeroBased(col, 0)

col_to_index(col) == ColLoop(col, 0) - 1

(***************************************************************************)
(* The package: the parts of products.xlsx that the program reads.         *)
(*   sst      xl/sharedStrings.xml: present or not, and its <si> items,    *)
(*            each a sequence of <t> texts                                 *)
(*   sheets   the <sheet> declarations of xl/workbook.xml, in order        *)
(*   rels     the <Relationship> entries of xl/_rels/workbook.xml.rels     *)
(*   parts    the worksheet parts, by path                                 *)
(* A worksheet is a sequence of <row>s, a row a sequence of <c> cells,     *)
(* a cell [r, hasV, v, t]: its r attribute ("" when absent), whether it    *)
(* has a <v> child, the text of <v>, and its t attribute ("" when absent). *)
(* The workbook part and the relationship part are present, and every     *)
(* part read is well-formed XML, as the input format requires; a missing   *)
(* worksheet part is the KeyError of z.read.                               *)
(***************************************************************************)
RECURSIVE Flatten(_)
Flatten(ss) == IF ss = <<>> THEN <<>> ELSE Head(ss) \o Flatten(Tail(ss))

read_shared_strings(z) ==
    IF ~z.sst.present THEN <<>>
    ELSE [i \in 1..Len(z.sst.items) |-> Flatten(z.sst.items[i])]

Raise(msg) == [ok |-> FALSE, err |-> msg, name |-> "", path |-> <<>>]

\* rels.findall(...) loop: the Target of the first entry whose Id equals rid
RelTarget(rels, rid) ==
    LET hits == {i \in 1..Len(rels) : rels[i].hasId /\ rels[i].Id = rid}
    IN  IF hits = {} THEN [found |-> FALSE, text |-> <<>>]
        ELSE LET first == CHOOSE i \in hits : \A j \in hits : i <= j
             IN  IF rels[first].hasTarget
                 THEN [found |-> TRUE, text |-> rels[first].Target]
                 ELSE [found |-> FALSE, text |-> <<>>]

\* mutant: the prefix is added without looking at the target's root
NormalizeAlwaysPrefix(target) == <<"x", "l", "/">> \o lstrip(target, {"/"})

\* lines 61-63: the target as a package path
NormalizeTarget(target) ==
    LET sheet_path == lstrip(target, {"/"})
    IN  IF ~startswith(sheet_path, <<"x", "l", "/">>)
        THEN <<"x", "l", "/">> \o sheet_path
        ELSE sheet_path

\* mutant: a sheet without a relationship id is reported as a missing sheet
get_first_sheet_path_one_error(z) ==
    IF z.sheets = <<>> THEN Raise("No sheet found in workbook")
    ELSE
      LET sheet == z.sheets[1]
          name == IF sheet.hasName THEN sheet.name ELSE "Sheet1"
      IN  IF ~sheet.hasRid \/ sheet.rid = ""
          THEN Raise("No sheet found in workbook")
          ELSE
            LET target == RelTarget(z.rels, sheet.rid)
            IN  IF ~target.found \/ target.text = <<>>
                THEN Raise("Sheet relationship target not found")
                ELSE [ok |-> TRUE, err |-> "", name |-> name,
                      path |-> NormalizeTarget(target.text)]

get_first_sheet_path(z) ==
    IF z.sheets = <<>> THEN Raise("No sheet found in workbook")
    ELSE
      LET sheet == z.sheets[1]
          name == IF sheet.hasName THEN sheet.name ELSE "Sheet1"
      IN  IF ~sheet.hasRid \/ sheet.rid = ""
          THEN Raise("Sheet relationship id not found")
          ELSE
            LET target == RelTarget(z.rels, sheet.rid)
            IN  IF ~target.found \/ target.text = <<>>
                THEN Raise("Sheet relationship target not found")
                ELSE [ok |-> TRUE, err |-> "", name |-> name,
                      path |-> NormalizeTarget(target.text)]

(***************************************************************************)
(* Worksheet Table Reader: read_sheet_rows                                 *)
(***************************************************************************)
\* re.match(r"([A-Z]+)(\d+)$", ref): the number of leading letters of the
\* match, 0 when ref does not match ($ also matches before a final newline)
RefLetters(ref) ==
    LET body == IF ref # <<>> /\ ref[Len(ref)] = "\n"
                THEN SubSeq(ref, 1, Len(ref) - 1) ELSE ref
        ks == {k \in 1..(Len(body) - 1) :
                 /\ \A i \in 1..k : IsUpper(body[i])
                 /\ \A i \in (k + 1)..Len(body) : IsDigit(body[i])}
    IN  IF ks = {} THEN 0 ELSE CHOOSE k \in ks : TRUE

RECURSIVE DigitsValue(_, _)
DigitsValue(s, n) ==
    IF s = <<>> THEN n
    ELSE IF Head(s) = "_" THEN DigitsValue(Tail(s), n)
    ELSE DigitsValue(Tail(s), n * 10 + (ord(Head(s)) - 48))

\* int(raw): surrounding whitespace, an optional sign, decimal digits with
\* single underscores between them; ok = FALSE where Python raises ValueError
int(raw) ==
    LET s == strip(raw)
        signed == s # <<>> /\ Head(s) \in {"+", "-"}
        body == IF signed THEN Tail(s) ELSE s
        valid == /\ body # <<>>
                 /\ IsDigit(body[1])
                 /\ IsDigit(body[Len(body)])
                 /\ \A i \in 1..Len(body) : IsDigit(body[i]) \/ body[i] = "_"
                 /\ \A i \in 1..(Len(body) - 1) : ~(body[i] = "_" /\ body[i + 1] = "_")
        mag == DigitsValue(body, 0)
    IN  IF ~valid THEN [ok |-> FALSE, val |-> 0]
        ELSE [ok |-> TRUE, val |-> IF signed /\ Head(s) = "-" THEN 0 - mag ELSE mag]

\* lines 85-88: shared[int(raw)] with Python's indexing, raw on any exception
SharedAt(shared, raw) ==
    LET i == int(raw)
    IN  IF ~i.ok THEN raw
        ELSE IF 0 <= i.val /\ i.val < Len(shared) THEN shared[i.val + 1]
        ELSE IF 0 - Len(shared) <= i.val /\ i.val < 0 THEN shared[Len(shared) + i.val + 1]
        ELSE raw

\* lines 81-88: the text a cell contributes
CellText(c, shared) ==
    LET raw == IF c.hasV THEN c.v ELSE <<>>
    IN  IF c.t = "s" THEN SharedAt(shared, raw) ELSE raw

DictSet(r, k, val) == [i \in (DOMAIN r) \cup {k} |-> IF i = k THEN val ELSE r[i]]

\* mutant: the first cell addressed to a column is kept
RECURSIVE RowDictFirstWins(_, _, _)
RowDictFirstWins(cells, shared, r) ==
    IF cells = <<>> THEN r
    ELSE
      LET c == Head(cells)
          k == RefLetters(c.r)
      IN  IF k = 0 THEN RowDictFirstWins(Tail(cells), shared, r)
          ELSE LET idx == col_to_index(SubSeq(c.r, 1, k))
               IN  RowDictFirstWins(Tail(cells), shared,
                       IF idx \in DOMAIN r THEN r ELSE DictSet(r, idx, CellText(c, shared)))

\* lines 73-89: the dict of one <row>
RECURSIVE RowDict(_, _, _)
RowDict(cells, shared, r) ==
    IF cells = <<>> THEN r
    ELSE
      LET c == Head(cells)
          k == RefLetters(c.r)
      IN  IF k = 0 THEN RowDict(Tail(cells), shared, r)
          ELSE LET idx == col_to_index(SubSeq(c.r, 1, k))
               IN  RowDict(Tail(cells), shared, DictSet(r, idx, CellText(c, shared)))

EmptyDict == [i \in {} |-> <<>>]

\* lines 71-91: the dicts of the rows that kept at least one cell
RECURSIVE RowDicts(_, _)
RowDicts(ws, shared) ==
    IF ws = <<>> THEN <<>>
    ELSE LET r == RowDict(Head(ws), shared, EmptyDict)
         IN  IF DOMAIN r # {} THEN <<r>> \o RowDicts(Tail(ws), shared)
             ELSE RowDicts(Tail(ws), shared)

SetMax(S) == CHOOSE m \in S : \A x \in S : x <= m

\* mutant: every row is densified to its own width
DensifyRagged(rows) ==
    [j \in 1..Len(rows) |->
        [i \in 1..(SetMax(DOMAIN rows[j]) + 1) |->
            IF (i - 1) \in DOMAIN rows[j] THEN rows[j][i - 1] ELSE <<>>]]

\* lines 96-99: every row as a list of width max_col + 1 (list position i
\* of Python is position i + 1 of the sequence)
Densify(rows) ==
    LET max_col == SetMax(UNION {DOMAIN rows[j] : j \in 1..Len(rows)})
    IN  [j \in 1..Len(rows) |->
            [i \in 1..(max_col + 1) |->
                IF (i - 1) \in DOMAIN rows[j] THEN rows[j][i - 1] ELSE <<>>]]

read_sheet_rows(ws, shared) ==
    LET rows == RowDicts(ws, shared)
    IN  IF rows = <<>> THEN <<>> ELSE Densify(rows)

(***************************************************************************)
(* Schema Mapper: build_products                                           *)
(***************************************************************************)
normalize_header(s) == lower(strip(s))

T_name == <<"n", "a", "m", "e">>

T_image == <<"i", "m", "a", "g", "e">>

T_desc == <<"d", "e", "s", "c">>

T_url == <<"u", "r", "l">>

wanted == {T_name, T_image, T_desc, T_url}

\* str < str: lexicographic by code point
RECURSIVE TextLess(_, _)
TextLess(a, b) ==
    IF b = <<>> THEN FALSE
    ELSE IF a = <<>> THEN TRUE
    ELSE IF Head(a) = Head(b) THEN TextLess(Tail(a), Tail(b))
    ELSE ord(Head(a)) < ord(Head(b))

\* sorted(list(S)) for a set of distinct texts
RECURSIVE sorted(_)
sorted(S) ==
    IF S = {} THEN <<>>
    ELSE LET least == CHOOSE x \in S : \A y \in S \ {x} : TextLess(x, y)
         IN  <<least>> \o sorted(S \ {least})

\* mutant: the last column with a wanted header wins
HeaderIndexLastWins(headers) ==
    LET found == {h \in wanted : \E i \in 1..Len(headers) : headers[i] = h}
    IN  [h \in found |->
            (CHOOSE i \in 1..Len(headers) :
                /\ headers[i] = h
                /\ \A j \in 1..Len(headers) : headers[j] = h => j <= i) - 1]

\* lines 119-122: idx, each wanted header at its first column (0-based)
HeaderIndex(headers) ==
    LET found == {h \in wanted : \E i \in 1..Len(headers) : headers[i] = h}
    IN  [h \in found |->
            (CHOOSE i \in 1..Len(headers) :
                /\ headers[i] = h
                /\ \A j \in 1..Len(headers) : headers[j] = h => i <= j) - 1]

\* mutant: the missing headers are reported in reverse order
MissingHeadersReversed(idx) ==
    LET m == sorted(wanted \ DOMAIN idx)
    IN  [i \in 1..Len(m) |-> m[Len(m) + 1 - i]]

\* line 124
MissingHeaders(idx) == sorted(wanted \ DOMAIN idx)

\* lines 130-133: the record of one data row
RowRecord(row, idx) ==
    [name  |-> strip(row[idx[T_name] + 1]),
     image |-> strip(row[idx[T_image] + 1]),
     desc  |-> strip(row[idx[T_desc] + 1]),
     url   |-> strip(row[idx[T_url] + 1])]

\* mutant: a row is dropped as soon as its name is empty
KeepRecordNeedsName(p) == p.name # <<>>

\* line 135
KeepRecord(p) == p.name # <<>> \/ p.image # <<>> \/ p.url # <<>> \/ p.desc # <<>>

\* lines 128-143
RECURSIVE Products(_, _)
Products(rows, idx) ==
    IF rows = <<>> THEN <<>>
    ELSE LET p == RowRecord(Head(rows), idx)
         IN  IF KeepRecord(p) THEN <<p>> \o Products(Tail(rows), idx)
             ELSE Products(Tail(rows), idx)

\* The outcome of a call of build_products: returned or raised, with the
\* values its locals had when it ended (empty where it did not get that far).
Outcome(status, err, missing, products, shared, sheet, table, idx) ==
    [status |-> status, err |-> err, missing |-> missing, products |-> products,
     shared |-> shared, sheet |-> sheet, table |-> table, idx |-> idx]

\* lines 124-145, with idx built: raise on a missing header, or the records
MapRows(shared, sheet, table, idx, missing) ==
    IF missing # <<>>
    THEN Outcome("raised", "products.xlsx missing headers",
                 missing, <<>>, shared, sheet, table, idx)
    ELSE Outcome("returned", "", <<>>, Products(Tail(table), idx),
                 shared, sheet, table, idx)

\* lines 116-122, with the table read
MapHeaders(shared, sheet, table, idx) ==
    MapRows(shared, sheet, table, idx, MissingHeaders(idx))

\* lines 113-145, with the table read
MapTable(shared, sheet, table) ==
    IF table = <<>>
    THEN Outcome("returned", "", <<>>, <<>>, shared, sheet, table, <<>>)
    ELSE MapHeaders(shared, sheet, table,
             HeaderIndex([i \in 1..Len(table[1]) |-> normalize_header(table[1][i])]))

\* lines 110-145, with shared and the outcome of get_first_sheet_path;
\* z.read(sheet_path) raises KeyError when the package has no such part
ReadAndMap(z, shared, sheet) ==
    IF ~sheet.ok
    THEN Outcome("raised", sheet.err, <<>>, <<>>, shared, sheet, <<>>, <<>>)
    ELSE IF sheet.path \notin DOMAIN z.parts
    THEN Outcome("raised", "KeyError", <<>>, <<>>, shared, sheet, <<>>, <<>>)
    ELSE MapTable(shared, sheet, read_sheet_rows(z.parts[sheet.path], shared))

build_products(z) == ReadAndMap(z, read_shared_strings(z), get_first_sheet_path(z))

(***************************************************************************)
(* sync_products.py                                                        *)
(* products.html is [exists, text]; products.json is [exists, isList,      *)
(* items], an item [isDict, pairs], a pair [k, v] of texts.                *)
(***************************************************************************)
START == <<"/", "/", " ", "P", "R", "O", "D", "U", "C", "T", "S", "_",
           "D", "A", "T", "A", "_", "S", "T", "A", "R", "T">>

END == <<"/", "/", " ", "P", "R", "O", "D", "U", "C", "T", "S", "_",
         "D", "A", "T", "A", "_", "E", "N", "D">>

\* str.find(sub): the 0-based index of the first occurrence, -1 if none
find(text, sub) ==
    LET at == {i \in 0..(Len(text) - Len(sub)) :
                 SubSeq(text, i + 1, i + Len(sub)) = sub}
    IN  IF at = {} THEN 0 - 1 ELSE CHOOSE i \in at : \A j \in at : i <= j

\* the escapes json.dumps applies inside a string (ensure_ascii=False)
JsonEscape(s) ==
    Flatten([i \in 1..Len(s) |->
        CASE s[i] = "\"" -> <<"\\", "\"">>
          [] s[i] = "\\" -> <<"\\", "\\">>
          [] s[i] = "\n" -> <<"\\", "n">>
          [] s[i] = "\t" -> <<"\\", "t">>
          [] OTHER -> <<s[i]>>])

JsonString(s) == <<"\"">> \o JsonEscape(s) \o <<"\"">>

Spaces(n) == [i \in 1..n |-> " "]

RECURSIVE JoinLines(_, _)
JoinLines(parts, indent) ==
    IF Len(parts) = 1 THEN Head(parts)
    ELSE Head(parts) \o <<",", "\n">> \o Spaces(indent) \o JoinLines(Tail(parts), indent)

\* json.dumps of one object at nesting level 1, indent=2
DumpObject(item) ==
    IF item.pairs = <<>> THEN <<"{", "}">>
    ELSE <<"{", "\n">> \o Spaces(4)
         \o JoinLines([i \in 1..Len(item.pairs) |->
                JsonString(item.pairs[i].k) \o <<":", " ">> \o JsonString(item.pairs[i].v)], 4)
         \o <<"\n">> \o Spaces(2) \o <<"}">>

\* line 29: json.dumps(data, ensure_ascii=False, indent=2)
Dumps(items) ==
    IF items = <<>> THEN <<"[", "]">>
    ELSE <<"[", "\n">> \o Spaces(2)
         \o JoinLines([i \in 1..Len(items) |-> DumpObject(items[i])], 2)
         \o <<"\n", "]">>

\* line 43
Replacement(pretty) ==
    <<"\n">> \o Spaces(4)
    \o <<"c", "o", "n", "s", "t", " ", "P", "R", "O", "D", "U", "C", "T", "S", " ", "=", " ">>
    \o pretty \o <<";", "\n">> \o Spaces(4)

\* mutant: the END marker itself is cut away with the old block
PatchDropsEnd(html_text, start_idx, end_idx, pretty) ==
    SubSeq(html_text, 1, start_idx + Len(START)) \o Replacement(pretty)
    \o SubSeq(html_text, end_idx + Len(END) + 1, Len(html_text))

\* lines 40-45: new_html
Patch(html_text, start_idx, end_idx, pretty) ==
    SubSeq(html_text, 1, start_idx + Len(START)) \o Replacement(pretty)
    \o SubSeq(html_text, end_idx + 1, Len(html_text))

\* main() of sync_products.py: the SystemExit message ("" when it ends
\* normally; the item number of the fourth message is left out) and the
\* text of products.html afterwards
SyncOutcome(json, file) ==
    IF ~json.exists THEN [exit |-> "products.json not found", text |-> file.text]
    ELSE IF ~file.exists THEN [exit |-> "products.html not found", text |-> file.text]
    ELSE IF ~json.isList
    THEN [exit |-> "products.json must be a JSON array", text |-> file.text]
    ELSE IF \E i \in 1..Len(json.items) : ~json.items[i].isDict
    THEN [exit |-> "products.json item must be an object", text |-> file.text]
    ELSE
      LET pretty == Dumps(json.items)
          start_idx == find(file.text, START)
          end_idx == find(file.text, END)
      IN  IF start_idx = 0 - 1 \/ end_idx = 0 - 1 \/ end_idx < start_idx
          THEN [exit |-> "Could not find PRODUCTS_DATA_START/END markers in products.html",
                text |-> file.text]
          ELSE [exit |-> "", text |-> Patch(file.text, start_idx, end_idx, pretty)]

(***************************************************************************)
(* Values of the variables a specification does not use                    *)
(***************************************************************************)
NoPackage == [sst |-> [present |-> FALSE, items |-> <<>>], sheets |-> <<>>,
              rels |-> <<>>, parts |-> <<>>]

NoOutcome == Outcome("none", "", <<>>, <<>>, <<>>, Raise(""), <<>>, <<>>)

NoFile == [exists |-> FALSE, text |-> <<>>]

NoJson == [exists |-> FALSE, isList |-> FALSE, items |-> <<>>]

\* all sequences over S of length lo..hi
SeqsOf(S, lo, hi) == UNION {[1..n -> S] : n \in lo..hi}

(***************************************************************************)
(* SpecCol: col_to_index applied to two column-letter strings              *)
(***************************************************************************)
ColAlphabet == {"A", "B", "Y", "Z"}

ColStrings == SeqsOf(ColAlphabet, 1, MaxLetters)

InitCol ==
    /\ pc = "start"
    /\ colA \in ColStrings
    /\ colB \in ColStrings
    /\ idxA = 0 - 1
    /\ idxB = 0 - 1
    /\ pkg = NoPackage
    /\ result = NoOutcome
    /\ html = NoFile
    /\ data = NoJson
    /\ runs = 0
    /\ exit = ""

Decode ==
    /\ pc = "start"
    /\ idxA' = col_to_index(colA)
    /\ idxB' = col_to_index(colB)
    /\ pc' = "done"
    /\ UNCHANGED <<colA, colB, pkg, result, html, data, runs, exit>>

NextCol == Decode

SpecCol == InitCol /\ [][NextCol]_vars

LetterValue(c) == IndexOf(UpperLetters, c)

RECURSIVE BijectiveValue(_)
BijectiveValue(col) ==
    IF col = <<>> THEN 0
    ELSE LetterValue(Head(col)) * 26 ^ (Len(col) - 1) + BijectiveValue(Tail(col))

\* the standard column ordering: shorter strings first, then alphabetical
RECURSIVE AlphaLess(_, _)
AlphaLess(a, b) ==
    IF a = <<>> \/ b = <<>> THEN FALSE
    ELSE IF Head(a) = Head(b) THEN AlphaLess(Tail(a), Tail(b))
    ELSE LetterValue(Head(a)) < LetterValue(Head(b))

StandardLess(a, b) == Len(a) < Len(b) \/ (Len(a) = Len(b) /\ AlphaLess(a, b))

\* C7: for every non-empty string of uppercase letters col_to_index returns
\* the bijective base-26 value (A=1..Z=26, most significant letter first)
\* minus 1: A -> 0, Z -> 25, AA -> 26, AB -> 27; it is strictly increasing
\* in the standard column ordering and therefore injective.
C7_ColToIndexBijectiveBase26 ==
    pc = "done" =>
        /\ idxA = BijectiveValue(colA) - 1
        /\ idxB = BijectiveValue(colB) - 1
        /\ idxA >= 0
        /\ (colA = <<"A">> => idxA = 0)
        /\ (colA = <<"Z">> => idxA = 25)
        /\ (colA = <<"A", "A">> => idxA = 26)
        /\ (colA = <<"A", "B">> => idxA = 27)
        /\ (StandardLess(colA, colB) => idxA < idxB)
        /\ (colA # colB => idxA # idxB)

C7_Witness ==
    /\ pc = "done"
    /\ colA = <<"Z">>
    /\ colB = <<"A", "A">>
    /\ idxA = 25
    /\ idxB = 26

(***************************************************************************)
(* build_products as the one operation of the extraction specifications    *)
(***************************************************************************)
BuildProducts ==
    /\ pc = "start"
    /\ result' = build_products(pkg)
    /\ pc' = "done"
    /\ UNCHANGED <<colA, colB, idxA, idxB, pkg, html, data, runs, exit>>

NextBuild == BuildProducts

InitBuild(packages) ==
    /\ pc = "start"
    /\ pkg \in packages
    /\ result = NoOutcome
    /\ colA = <<>>
    /\ colB = <<>>
    /\ idxA = 0 - 1
    /\ idxB = 0 - 1
    /\ html = NoFile
    /\ data = NoJson
    /\ runs = 0
    /\ exit = ""

\* a plain cell with a stored value, and one addressed by column number
Cell(ref, v) == [r |-> ref, hasV |-> TRUE, v |-> v, t |-> ""]

CellAt(col, rowNo, v) == Cell(<<UpperLetters[col + 1], DigitChars[rowNo + 1]>>, v)

T_Widget == <<"W", "i", "d", "g", "e", "t">>

T_img == <<"i", "m", "g", ".", "p", "n", "g">>

T_fine == <<"f", "i", "n", "e">>

T_http == <<"h", "t", "t", "p", ":", "/", "/", "x">>

HeaderRow == <<CellAt(0, 1, T_name), CellAt(1, 1, T_image),
               CellAt(2, 1, T_desc), CellAt(3, 1, T_url)>>

WidgetRow == <<CellAt(0, 2, T_Widget), CellAt(1, 2, T_img),
               CellAt(2, 2, T_fine), CellAt(3, 2, T_http)>>

SmallSheet == <<HeaderRow, WidgetRow>>

P_xl_s == <<"x", "l", "/", "s">>

NoSharedStrings == [present |-> FALSE, items |-> <<>>]

(***************************************************************************)
(* SpecTopo: build_products over packages whose workbook and relationship  *)
(* parts vary; the worksheet part xl/s is SmallSheet.                      *)
(***************************************************************************)
SheetDecls ==
    {[hasName |-> n[1], name |-> n[2], hasRid |-> r[1], rid |-> r[2]] :
        n \in {<<FALSE, "">>, <<TRUE, "Products">>},
        r \in {<<FALSE, "">>, <<TRUE, "">>, <<TRUE, "rId1">>}}

TopoTargets == {<<FALSE, <<>> >>, <<TRUE, <<>> >>, <<TRUE, <<"s">> >>,
                <<TRUE, <<"/", "x", "l", "/", "t">> >>}

RelEntries ==
    {[hasId |-> i[1], Id |-> i[2], hasTarget |-> t[1], Target |-> t[2]] :
        i \in {<<FALSE, "">>, <<TRUE, "rId1">>, <<TRUE, "rId2">>},
        t \in TopoTargets}

PathAlphabet == {"/", "x", "l", "s"}

TopoPackages ==
    {[sst |-> NoSharedStrings, sheets |-> sh, rels |-> rl,
      parts |-> [p \in {P_xl_s} |-> SmallSheet]] :
        sh \in SeqsOf(SheetDecls, 0, MaxSheets), rl \in SeqsOf(RelEntries, 0, MaxRels)}

PathPackages ==
    {[sst |-> NoSharedStrings,
      sheets |-> <<[hasName |-> TRUE, name |-> "Products", hasRid |-> TRUE, rid |-> "rId1"]>>,
      rels |-> <<[hasId |-> TRUE, Id |-> "rId1", hasTarget |-> TRUE, Target |-> t]>>,
      parts |-> [p \in {P_xl_s} |-> SmallSheet]] :
        t \in SeqsOf(PathAlphabet, 1, MaxPath)}

InitTopo == InitBuild(TopoPackages \cup PathPackages)

SpecTopo == InitTopo /\ [][NextBuild]_vars

\* the hops of the chain, read off the package
HasSheet == pkg.sheets # <<>>

HasRidAttribute == HasSheet /\ pkg.sheets[1].hasRid

HasRid == HasRidAttribute /\ pkg.sheets[1].rid # ""

Matching == {i \in 1..Len(pkg.rels) :
                HasRidAttribute /\ pkg.rels[i].hasId /\ pkg.rels[i].Id = pkg.sheets[1].rid}

FirstMatching == CHOOSE i \in Matching : \A j \in Matching : i <= j

FirstMatchHasTarget ==
    /\ Matching # {}
    /\ pkg.rels[FirstMatching].hasTarget
    /\ pkg.rels[FirstMatching].Target # <<>>

ExpectedName == IF pkg.sheets[1].hasName THEN pkg.sheets[1].name ELSE "Sheet1"

\* the target without its leading separators
SepCount(t) ==
    CHOOSE k \in 0..Len(t) :
        /\ \A i \in 1..k : t[i] = "/"
        /\ (k = Len(t) \/ t[k + 1] # "/")

Unrooted(t) == SubSeq(t, SepCount(t) + 1, Len(t))

RootedAtXl(t) == Len(t) >= 3 /\ t[1] = "x" /\ t[2] = "l" /\ t[3] = "/"

ExpectedPath(t) == IF RootedAtXl(Unrooted(t)) THEN Unrooted(t) ELSE <<"x", "l", "/">> \o Unrooted(t)

NoPartialResult == result.status = "raised" /\ result.products = <<>>

\* C3 as stated: MissingSheet if the workbook declares no sheet,
\* MissingRelationshipId if the first sheet has no relationship-id attribute,
\* UnresolvedRelationship if no relationship entry has a matching Id, and in
\* every other case the sheet name and the normalized part path are returned.
C3_Original ==
    pc = "done" =>
        IF ~HasSheet
        THEN result.sheet.err = "No sheet found in workbook" /\ NoPartialResult
        ELSE IF ~HasRidAttribute
        THEN result.sheet.err = "Sheet relationship id not found" /\ NoPartialResult
        ELSE IF Matching = {}
        THEN result.sheet.err = "Sheet relationship target not found" /\ NoPartialResult
        ELSE /\ result.sheet.ok
             /\ result.sheet.name = ExpectedName
             /\ result.sheet.path = ExpectedPath(pkg.rels[FirstMatching].Target)

\* C3 (amended): get_first_sheet_path walks sheet -> relationship id ->
\* relationship entry in that order and aborts at the first unsatisfied hop
\* with a distinct error: MissingSheet if the workbook declares no sheet,
\* MissingRelationshipId if the first sheet's relationship-id attribute is
\* absent or empty, UnresolvedRelationship if no relationship entry has a
\* matching Id or the first matching entry has no non-empty Target; in every
\* other case it returns the sheet name ("Sheet1" if unnamed) and the
\* normalized part path; on any of the three failures build_products
\* returns no partial result.
C3_TopologyChain ==
    pc = "done" =>
        IF ~HasSheet
        THEN result.sheet.err = "No sheet found in workbook" /\ NoPartialResult
        ELSE IF ~HasRid
        THEN result.sheet.err = "Sheet relationship id not found" /\ NoPartialResult
        ELSE IF ~FirstMatchHasTarget
        THEN result.sheet.err = "Sheet relationship target not found" /\ NoPartialResult
        ELSE /\ result.sheet.ok
             /\ result.sheet.err = ""
             /\ result.sheet.name = ExpectedName
             /\ result.sheet.path = ExpectedPath(pkg.rels[FirstMatching].Target)

\* a sheet whose relationship id is resolved by the second entry only
C3_Witness ==
    /\ pc = "done"
    /\ HasRid
    /\ Len(pkg.rels) = 2
    /\ FirstMatchHasTarget
    /\ FirstMatching = 2
    /\ result.sheet.ok
    /\ result.sheet.name = "Sheet1"
    /\ result.status = "returned"

\* C9: for every non-empty relationship target the returned part path has
\* no leading separator and starts with "xl/"; a target rooted at "xl/"
\* (with or without leading separators) is returned with only its leading
\* separators removed, any other target with "xl/" prefixed; normalizing a
\* normalized path returns it unchanged.
C9_PathNormalized ==
    (pc = "done" /\ result.sheet.ok) =>
        LET t == pkg.rels[FirstMatching].Target
            path == result.sheet.path
        IN  /\ path[1] # "/"
            /\ RootedAtXl(path)
            /\ (RootedAtXl(Unrooted(t)) => path = Unrooted(t))
            /\ (~RootedAtXl(Unrooted(t)) => path = <<"x", "l", "/">> \o Unrooted(t))
            /\ NormalizeTarget(path) = path

\* a rooted target with leading separators
C9_Witness ==
    /\ pc = "done"
    /\ result.sheet.ok
    /\ pkg.rels[FirstMatching].Target = <<"/", "x", "l", "/", "s">>
    /\ result.sheet.path = P_xl_s

(***************************************************************************)
(* SpecRows: build_products over worksheets whose cells vary: up to        *)
(* MaxRows plain rows and one further cell, of any address, value and      *)
(* type, at the front or the back of one of the rows; the shared-string    *)
(* part is absent or holds the first 0..MaxShared items of SharedItems.    *)
(***************************************************************************)
T_Alpha == <<"A", "l", "p", "h", "a">>

T_Gadget == <<"G", "a", "d", "g", "e", "t">>

\* the second item is split in two text runs
SharedItems == << <<T_Alpha>>, << <<"B", "e">>, <<"t", "a">> >>, <<T_url>>, << <<>> >> >>

SharedTables ==
    {NoSharedStrings} \cup
    {[present |-> TRUE, items |-> SubSeq(SharedItems, 1, n)] : n \in 0..MaxShared}

GadgetRow == <<CellAt(0, 3, T_Gadget), CellAt(2, 3, T_fine)>>

PlainRows == {<<>>, HeaderRow, GadgetRow}

PlainSheets == SeqsOf(PlainRows, 0, MaxRows)

OddRefs == {<<"A", "1">>, <<"E", "1">>, <<"e", "1">>, <<>>}

OddValues == {<<FALSE, <<>> >>, <<TRUE, <<"1">> >>, <<TRUE, <<"-", "1">> >>,
              <<TRUE, <<"-", "3">> >>, <<TRUE, <<"7">> >>, <<TRUE, <<"x">> >>,
              <<TRUE, <<" ", "0">> >>}

OddCells == {[r |-> ref, hasV |-> v[1], v |-> v[2], t |-> t] :
                ref \in OddRefs, v \in OddValues, t \in {"", "s"}}

InsertAt(row, p, c) == SubSeq(row, 1, p) \o <<c>> \o SubSeq(row, p + 1, Len(row))

InsertCell(ws, r, p, c) == [j \in 1..Len(ws) |-> IF j = r THEN InsertAt(ws[j], p, c) ELSE ws[j]]

OddSheets ==
    UNION {UNION {{InsertCell(ws, r, p, c) : p \in {0, Len(ws[r])}, c \in OddCells} :
                     r \in 1..Len(ws)} : ws \in PlainSheets}

ResolvedTopology(sst, ws) ==
    [sst |-> sst,
     sheets |-> <<[hasName |-> TRUE, name |-> "Products", hasRid |-> TRUE, rid |-> "rId1"]>>,
     rels |-> <<[hasId |-> TRUE, Id |-> "rId1", hasTarget |-> TRUE, Target |-> <<"s">>]>>,
     parts |-> [p \in {P_xl_s} |-> ws]]

RowsPackages ==
    {ResolvedTopology(sst, ws) : sst \in SharedTables, ws \in PlainSheets \cup OddSheets}

InitRows == InitBuild(RowsPackages)

SpecRows == InitRows /\ [][NextBuild]_vars

\* the worksheet the extraction read
Worksheet == pkg.parts[P_xl_s]

\* an address is letters then digits
IsAddress(ref) ==
    \E k \in 1..(Len(ref) - 1) :
        /\ \A i \in 1..k : ref[i] \in Range(UpperLetters)
        /\ \A i \in (k + 1)..Len(ref) : ref[i] \in Range(DigitChars)

\* the column an address names
ColumnOf(ref) ==
    LET k == CHOOSE n \in 1..(Len(ref) - 1) :
                /\ \A i \in 1..n : ref[i] \in Range(UpperLetters)
                /\ \A i \in (n + 1)..Len(ref) : ref[i] \in Range(DigitChars)
    IN  BijectiveValue(SubSeq(ref, 1, k)) - 1

\* the positions of the cells of a row that are stored, and the one that
\* decides a column
Stored(row) == {k \in 1..Len(row) : IsAddress(row[k].r)}

StoredAt(row, col) == {k \in Stored(row) : ColumnOf(row[k].r) = col}

Deciding(row, col) == CHOOSE k \in StoredAt(row, col) : \A m \in StoredAt(row, col) : m <= k

\* the rows of a worksheet that keep a cell, as indices in document order
RECURSIVE KeptFrom(_, _)
KeptFrom(ws, j) ==
    IF j > Len(ws) THEN <<>>
    ELSE IF Stored(ws[j]) # {} THEN <<j>> \o KeptFrom(ws, j + 1)
    ELSE KeptFrom(ws, j + 1)

Kept(ws) == KeptFrom(ws, 1)

MaxColumn(ws) ==
    SetMax(UNION {{ColumnOf(ws[j][k].r) : k \in Stored(ws[j])} : j \in 1..Len(ws)})

\* C4: every row of the table read_sheet_rows returns has the same width,
\* the maximum column index over all kept rows plus 1; each position holds
\* the value of the cell addressed to that column in that row (of the last
\* such cell when several are), or the empty text if the row has no such
\* cell; so the column of every mapped header is in range in every row.
C4_DenseUniformTable ==
    (pc = "done" /\ result.sheet.ok) =>
        LET ws == Worksheet
            kept == Kept(ws)
            table == result.table
        IN  /\ Len(table) = Len(kept)
            /\ \A j \in 1..Len(kept) :
                 /\ Len(table[j]) = MaxColumn(ws) + 1
                 /\ \A i \in 0..MaxColumn(ws) :
                      table[j][i + 1] =
                          IF StoredAt(ws[kept[j]], i) = {} THEN <<>>
                          ELSE CellText(ws[kept[j]][Deciding(ws[kept[j]], i)], result.shared)
            /\ \A j \in 1..Len(table) : \A i \in 1..Len(table[1]) : i \in DOMAIN table[j]

\* rows of uneven width: a row through column E and a row through column C
C4_Witness ==
    /\ pc = "done"
    /\ result.sheet.ok
    /\ Len(result.table) = 2
    /\ Len(result.table[1]) = 5
    /\ Len(result.table[2]) = 5
    /\ result.table[1][5] # <<>>
    /\ result.table[2][1] = T_Gadget
    /\ result.table[2][2] = <<>>
    /\ result.table[2][5] = <<>>

\* the raw text of a cell, and whether it is an index into the table
RawText(c) == IF c.hasV THEN c.v ELSE <<>>

IndexInRange(c, shared) ==
    int(RawText(c)).ok /\ 0 <= int(RawText(c)).val /\ int(RawText(c)).val < Len(shared)

\* C5: a cell with the shared-string marker holds sharedStrings[i] when its
\* value text is an integer i with 0 <= i < length of the table, and its raw
\* text unchanged when the text is no integer or the index is outside
\* 0..length-1; a cell without the marker keeps its raw text.
C5_SharedStringResolution ==
    (pc = "done" /\ result.sheet.ok) =>
        LET ws == Worksheet
            kept == Kept(ws)
        IN  \A j \in 1..Len(kept) : \A k \in Stored(ws[kept[j]]) :
                LET c == ws[kept[j]][k]
                    col == ColumnOf(c.r)
                IN  Deciding(ws[kept[j]], col) = k =>
                        result.table[j][col + 1] =
                            IF c.t = "s" /\ IndexInRange(c, result.shared)
                            THEN result.shared[int(RawText(c)).val + 1]
                            ELSE RawText(c)

\* the three cell-level anomalies
Anomalous(c, shared) ==
    \/ ~IsAddress(c.r)
    \/ ~c.hasV
    \/ c.t = "s" /\ ~IndexInRange(c, shared)

WithoutCell(z, j, k) ==
    [z EXCEPT !.parts = [p \in DOMAIN z.parts |->
        [r \in 1..Len(z.parts[p]) |->
            IF r = j
            THEN SubSeq(z.parts[p][r], 1, k - 1) \o SubSeq(z.parts[p][r], k + 1, Len(z.parts[p][r]))
            ELSE z.parts[p][r]]]]

Succeeds(z) == build_products(z).status = "returned"

InHeaderRow(ws, j, k) ==
    /\ IsAddress(ws[j][k].r)
    /\ Kept(ws)[1] = j
    /\ \/ Stored(ws[j]) = {k}
       \/ /\ Deciding(ws[j], ColumnOf(ws[j][k].r)) = k
          /\ \E m \in StoredAt(ws[j], ColumnOf(ws[j][k].r)) : m < k

FieldColumns == <<T_url, T_name, T_desc, T_image>>

ExtraHeaders == {<<" ", "N", "a", "m", "e", " ">>, <<"U", "R", "L">>,
                 <<"e", "x", "t", "r", "a">>, T_desc, <<" ">>}

RECURSIVE Pick(_, _, _)
Pick(s, S, i) ==
    IF i > Len(s) THEN <<>>
    ELSE (IF i \in S THEN <<s[i]>> ELSE <<>>) \o Pick(s, S, i + 1)

BaseHeaders == {Pick(FieldColumns, S, 1) : S \in SUBSET (1..4)}

HeaderTexts ==
    BaseHeaders \cup
    UNION {{InsertAt(h, p, x) : p \in 0..Len(h), x \in ExtraHeaders} : h \in BaseHeaders}

\* a data row by pattern, as the values of columns 0..w-1 ("skip": no cell)
PatternValue(pattern, i, w) ==
    CASE pattern = "full" -> <<" ", "v", DigitChars[i + 1], " ">>
      [] pattern = "spaces" -> <<" ">>
      [] pattern = "first" -> IF i = 0 THEN <<"a">> ELSE <<"s", "k", "i", "p">>
      [] pattern = "last" -> IF i = w - 1 THEN <<"z">> ELSE <<>>
      [] pattern = "none" -> <<"s", "k", "i", "p">>

Patterns == {"full", "spaces", "first", "last", "none"}

CellsOf(values, rowNo) ==
    Flatten([i \in 1..Len(values) |->
        IF values[i] = <<"s", "k", "i", "p">> THEN <<>>
        ELSE <<CellAt(i - 1, rowNo, values[i])>>])

MapSheet(h, ps) ==
    <<CellsOf(h, 1)>> \o
    [j \in 1..Len(ps) |->
        CellsOf([i \in 1..Len(h) |-> PatternValue(ps[j], i - 1, Len(h))], j + 1)]

MapPackages ==
    {ResolvedTopology(NoSharedStrings, MapSheet(h, ps)) :
        h \in HeaderTexts, ps \in SeqsOf(Patterns, 0, MaxDataRows)}

InitMap == InitBuild(MapPackages)

SpecMap == InitMap /\ [][NextBuild]_vars

\* a text without its leading and trailing white space
Trimmed(s) ==
    LET inked == {i \in 1..Len(s) : s[i] \notin {" ", "\t", "\n"}}
    IN  IF inked = {} THEN <<>>
        ELSE SubSeq(s, CHOOSE i \in inked : \A j \in inked : i <= j,
                       CHOOSE i \in inked : \A j \in inked : j <= i)

\* the header row as the mapper compares it
Normalized(table) == [i \in 1..Len(table[1]) |-> lower(Trimmed(table[1][i]))]

Present(table, f) == \E i \in 1..Len(table[1]) : Normalized(table)[i] = f

\* the smallest column (0-based) whose header is f
FirstColumn(table, f) ==
    (CHOOSE i \in 1..Len(table[1]) :
        /\ Normalized(table)[i] = f
        /\ \A j \in 1..(i - 1) : Normalized(table)[j] # f) - 1

ExpectedRecord(table, row) ==
    [name  |-> Trimmed(row[FirstColumn(table, T_name) + 1]),
     image |-> Trimmed(row[FirstColumn(table, T_image) + 1]),
     desc  |-> Trimmed(row[FirstColumn(table, T_desc) + 1]),
     url   |-> Trimmed(row[FirstColumn(table, T_url) + 1])]

AllEmpty(p) == p.name = <<>> /\ p.image = <<>> /\ p.desc = <<>> /\ p.url = <<>>

\* the data rows (table index >= 1, position >= 2) that are not all empty
RECURSIVE EmittedFrom(_, _)
EmittedFrom(table, j) ==
    IF j > Len(table) THEN <<>>
    ELSE IF AllEmpty(ExpectedRecord(table, table[j])) THEN EmittedFrom(table, j + 1)
    ELSE <<j>> \o EmittedFrom(table, j + 1)

TableRead == pc = "done" /\ result.sheet.ok /\ result.table # <<>>

\* C1: for a non-empty table whose header row has all four headers,
\* build_products returns exactly the data rows in their order, each as the
\* record of the trimmed values of the four mapped columns, a row being
\* omitted if and only if its four trimmed values are empty.
C1_RecordsInOrder ==
    (TableRead /\ \A f \in wanted : Present(result.table, f)) =>
        LET table == result.table
            emitted == EmittedFrom(table, 2)
        IN  /\ result.status = "returned"
            /\ Len(result.products) = Len(emitted)
            /\ \A n \in 1..Len(emitted) :
                  result.products[n] = ExpectedRecord(table, table[emitted[n]])

\* two data rows, the second of white space only: one record
C1_Witness ==
    /\ TableRead
    /\ \A f \in wanted : Present(result.table, f)
    /\ Len(result.table) = 3
    /\ EmittedFrom(result.table, 2) = <<2>>
    /\ Len(result.products) = 1
    /\ result.products[1].name = <<"v", "1">>

AlphabeticalFields == <<T_desc, T_image, T_name, T_url>>

\* C2: for a non-empty table build_products fails with MissingHeaders if
\* and only if one of name, image, desc, url is absent from the trimmed,
\* lower-cased header row; the error names exactly the absent fields, each
\* once, in alphabetical order; when it fails no record is returned.
C2_MissingHeaders ==
    TableRead =>
        LET absent == {f \in wanted : ~Present(result.table, f)}
        IN  /\ (result.status = "raised") <=> (absent # {})
            /\ result.status = "raised" =>
                  /\ result.err = "products.xlsx missing headers"
                  /\ result.missing = Pick(AlphabeticalFields,
                                           {i \in 1..4 : AlphabeticalFields[i] \in absent}, 1)
                  /\ result.products = <<>>
            /\ result.status = "returned" => result.missing = <<>>

\* name and desc are absent
C2_Witness ==
    /\ TableRead
    /\ result.status = "raised"
    /\ result.missing = <<T_desc, T_name>>
    /\ Len(result.table) >= 2

DropColumn(table, c) ==
    [j \in 1..Len(table) |-> SubSeq(table[j], 1, c - 1) \o SubSeq(table[j], c + 1, Len(table[j]))]

\* a column that is not the first one of a required field
Unmapped(table, c) == \A f \in wanted : Present(table, f) => FirstColumn(table, f) + 1 # c

\* C8: each required field is mapped to the smallest column index whose
\* header equals the field name after trimming and lower-casing; later
\* columns with the same normalized header and columns with other headers
\* never change the mapping or the emitted records.
C8_FirstHeaderWins ==
    TableRead =>
        LET table == result.table
        IN  /\ DOMAIN result.idx = {f \in wanted : Present(table, f)}
            /\ \A f \in DOMAIN result.idx : result.idx[f] = FirstColumn(table, f)
            /\ \A c \in 1..Len(table[1]) : Unmapped(table, c) =>
                  LET less == DropColumn(table, c)
                      idx == HeaderIndex([i \in 1..Len(less[1]) |-> normalize_header(less[1][i])])
                  IN  /\ DOMAIN idx = DOMAIN result.idx
                      /\ \A f \in DOMAIN idx :
                            idx[f] = IF result.idx[f] < c - 1 THEN result.idx[f]
                                     ELSE result.idx[f] - 1
                      /\ result.status = "returned" =>
                            Products(Tail(less), idx) = result.products

\* a second name column ("Name" padded) before the end, with a record
C8_Witness ==
    /\ TableRead
    /\ result.status = "returned"
    /\ Len(result.products) >= 1
    /\ \E c \in 1..Len(result.table[1]) :
          /\ Unmapped(result.table, c)
          /\ Normalized(result.table)[c] = T_name
          /\ result.idx[T_name] < c - 1

(***************************************************************************)
(* SpecSync: sync_products.py run up to MaxRuns times on the same          *)
(* products.json. products.html is made of up to MaxSegments segments: a   *)
(* START marker, an END marker, or other text that begins a marker.        *)
(***************************************************************************)
Segments == {START, END, <<"x", "/", "/", " ", "P">>}

HtmlFiles ==
    {NoFile} \cup
    {[exists |-> TRUE, text |-> Flatten(segs)] : segs \in SeqsOf(Segments, 0, MaxSegments)}

JsonItems ==
    {[isDict |-> FALSE, pairs |-> <<>>],
     [isDict |-> TRUE, pairs |-> <<>>],
     [isDict |-> TRUE, pairs |-> <<[k |-> T_name, v |-> <<"a", "\"", "b">>]>>],
     [isDict |-> TRUE, pairs |-> <<[k |-> T_desc, v |-> <<"s", "e", "e", " ">> \o END]>>]}

JsonFiles ==
    {NoJson, [exists |-> TRUE, isList |-> FALSE, items |-> <<>>]} \cup
    {[exists |-> TRUE, isList |-> TRUE, items |-> items] :
        items \in SeqsOf(JsonItems, 0, MaxItems)}

InitSync ==
    /\ pc = "start"
    /\ html \in HtmlFiles
    /\ data \in JsonFiles
    /\ runs = 0
    /\ exit = ""
    /\ pkg = NoPackage
    /\ result = NoOutcome
    /\ colA = <<>>
    /\ colB = <<>>
    /\ idxA = 0 - 1
    /\ idxB = 0 - 1

\* one run of main() of sync_products.py
Main ==
    /\ runs < MaxRuns
    /\ LET o == SyncOutcome(data, html)
       IN  /\ html' = [html EXCEPT !.text = o.text]
           /\ exit' = o.exit
    /\ runs' = runs + 1
    /\ pc' = "done"
    /\ UNCHANGED <<colA, colB, idxA, idxB, pkg, result, data>>

NextSync == Main

SpecSync == InitSync /\ [][NextSync]_vars

\* where a marker first occurs in a text (0-based), -1 if nowhere
OccursAt(text, sub, i) ==
    /\ i + Len(sub) <= Len(text)
    /\ \A n \in 1..Len(sub) : text[i + n] = sub[n]

FirstOccurrence(text, sub) ==
    IF \E i \in 0..Len(text) : OccursAt(text, sub, i)
    THEN CHOOSE i \in 0..Len(text) :
            OccursAt(text, sub, i) /\ \A j \in 0..(i - 1) : ~OccursAt(text, sub, j)
    ELSE 0 - 1

Syncable ==
    /\ html.exists
    /\ data.exists
    /\ data.isList
    /\ \A i \in 1..Len(data.items) : data.items[i].isDict

MarkersInOrder ==
    /\ FirstOccurrence(html.text, START) >= 0
    /\ FirstOccurrence(html.text, END) >= 0
    /\ FirstOccurrence(html.text, START) < FirstOccurrence(html.text, END)

\* a run replaces the text strictly between the first START and the first
\* END by the block holding the serialized array; with a marker missing or
\* END before START it leaves the file as it is
PatchesBetweenMarkers ==
    /\ (Syncable /\ MarkersInOrder) =>
          /\ exit' = ""
          /\ html'.text =
                SubSeq(html.text, 1, FirstOccurrence(html.text, START) + Len(START))
                \o Replacement(Dumps(data.items))
                \o SubSeq(html.text, FirstOccurrence(html.text, END) + 1, Len(html.text))
    /\ ~(Syncable /\ MarkersInOrder) => html' = html /\ exit' # ""

\* C10 as stated: a run patches between the markers, and a second run with
\* the same products.json, for any array of objects, leaves the file as the
\* first run left it.
C10_Original ==
    [][PatchesBetweenMarkers /\ (runs >= 1 => html' = html)]_vars

\* C10 (amended): on a products.html whose first START marker precedes its
\* first END marker a run replaces only the text strictly between them by
\* the block holding the serialized array, leaving everything up to and
\* including START and everything from END onward unchanged; a second run
\* with the same products.json leaves the file as the first run left it
\* provided the serialized array does not contain the END marker; with a
\* marker missing or END before START the file is left unmodified.
C10_SyncPatchesBetweenMarkers ==
    [][/\ PatchesBetweenMarkers
       /\ (runs >= 1 /\ FirstOccurrence(Dumps(data.items), END) < 0) => html' = html]_vars

\* a second run after a successful first one, the array not holding a marker
C10_Witness ==
    /\ runs = 2
    /\ exit = ""
    /\ Len(data.items) = 2
    /\ FirstOccurrence(Dumps(data.items), END) < 0
    /\ MarkersInOrder
    /\ FirstOccurrence(html.text, Replacement(Dumps(data.items))) =
          FirstOccurrence(html.text, START) + Len(START)

====
